---------------------------- MODULE Spec2Model ----------------------------
(***************************************************************************)
(* A1 Tools: the availability supervisor (service_helper) and the main     *)
(* application's single-instance guard, as a state machine.                *)
(*                                                                         *)
(* Wide strings are sequences of one-character strings, so that the        *)
(* code's case folding, exact comparison and substring search are          *)
(* computed and not assumed.                                               *)
(*                                                                         *)
(* Time.  The code only ever reads the difference between the clock and a  *)
(* marker file's last-write time (a1_service_helper.cpp:201, :233), so a   *)
(* file carries its last-write time relative to the clock: age = now -     *)
(* lastWrite in FILETIME ticks, negative when the last write lies in the   *)
(* clock's future.  Time passing adds to every age.  Ages stop growing at  *)
(* AgeCap, beyond which the code cannot tell them apart.  A FILETIME tick  *)
(* is 1/TicksPerSecond s here (100 ns in the code) and ULONGLONG is        *)
(* QuadBits wide (64 in the code).                                         *)
(*                                                                         *)
(* Operating-system calls are taken to succeed except where the code       *)
(* branches on the outcome and the outcome is the environment's to choose  *)
(* (the app executable missing, CreateProcessW failing).                   *)
(*                                                                         *)
(* The supervisor's log file is followed in SpecLog, as a sequence of Log  *)
(* calls of one process; a file's size is a number of bytes below 2^31,    *)
(* where nFileSizeLow is the size.                                         *)
(***************************************************************************)
EXTENDS Integers, Sequences, FiniteSets, TLC

VARIABLES
    sup,        \* the supervisor processes: position, command line, mutex handle
    files,      \* the two marker files in the app-data directory
    appExe,     \* whether a1_tools.exe exists in the app-data directory
    app,        \* the main-app processes
    installer,  \* whether an installer process is running
    probe,      \* a stand-alone call sequence of the active-checks
    injector,   \* the PrivacyInjector singleton of the main app
    target,     \* the processes PrivacyInjector is pointed at, and their windows
    logs        \* the supervisor's log file and its backup, and the last Log call

vars == <<sup, files, appExe, app, installer, probe, injector, target, logs>>

-----------------------------------------------------------------------------
(* Bounds of the model *)

NSup == 2
NApp == 2
MaxCycles == 2
TicksPerSecond == 2
QuadBits == 16
MaxFutureSeconds == 3
NTarget == 2
NLive == 1
NWin == 1
MaxLoads == 2

(* Configuration, a1_service_helper.cpp:27-36 *)

CHECK_INTERVAL_MS == 120000
UPDATE_LOCK_TIMEOUT_MINUTES == 10
RESTART_LOCK_TIMEOUT_SECONDS == 30
RECOVER_SLEEP_MS == 5000

APP_EXE_NAME == <<"a","1","_","t","o","o","l","s",".","e","x","e">>
UPDATE_LOCK_FILE == ".update_in_progress"
RESTART_LOCK_FILE == ".restart_pending"

Sup == 1..NSup
App == 1..NApp
LockFiles == {UPDATE_LOCK_FILE, RESTART_LOCK_FILE}

-----------------------------------------------------------------------------
(* Wide strings *)

UpperCase == <<"A","B","C","D","E","F","G","H","I","J","K","L","M",
               "N","O","P","Q","R","S","T","U","V","W","X","Y","Z">>
LowerCase == <<"a","b","c","d","e","f","g","h","i","j","k","l","m",
               "n","o","p","q","r","s","t","u","v","w","x","y","z">>

\* the lower-case letter of every upper-case letter
LowerOf ==
    [c \in {UpperCase[i] : i \in 1..Len(UpperCase)} |->
        LowerCase[CHOOSE i \in 1..Len(UpperCase) : UpperCase[i] = c]]

towlower(c) == IF c \in DOMAIN LowerOf THEN LowerOf[c] ELSE c

ToLower(s) == [i \in 1..Len(s) |-> towlower(s[i])]

\* std::wstring::find(needle) != npos
Found(hay, needle) ==
    \E i \in 0..(Len(hay) - Len(needle)) :
        SubSeq(hay, i + 1, i + Len(needle)) = needle

\* _wcsicmp(a, b) == 0
wcsicmp0(a, b) == ToLower(a) = ToLower(b)


-----------------------------------------------------------------------------
(* Names the environment uses *)

\* L"--check-once", L"--verify" (a1_service_helper.cpp:69-70)
FLAG_CHECK_ONCE == <<"-","-","c","h","e","c","k","-","o","n","c","e">>
FLAG_VERIFY == <<"-","-","v","e","r","i","f","y">>

\* Command lines a supervisor is started with: none, or either flag.
CmdLines ==
    { <<>>,
      FLAG_CHECK_ONCE,
      FLAG_VERIFY }

\* The image name of a main-app process somebody else starts: the file's
\* name in another spelling.
UserImage == <<"A","1","_","T","o","o","l","s",".","E","X","E">>

\* a renamed copy of the app
CopyImage == <<"a","1","_","t","o","o","l","s","2",".","e","x","e">>

InstallerImage == <<"A","1","T","o","o","l","s","_","U","p","d","a","t","e",".","e","x","e">>
HelperImage == <<"a","1","_","s","e","r","v","i","c","e","_","h","e","l","p","e","r",".","e","x","e">>

\* the arguments RecoverApp appends (a1_service_helper.cpp:360)
RestartArgs == <<"--auto-start", "--service-restart">>

Pid(s) == s
OtherPid == NSup + 1
InstallerPid == NSup + 2

-----------------------------------------------------------------------------
(* Marker files and time *)

NoFile == [exists |-> FALSE, age |-> 0, pid |-> 0]
NewFile(pid) == [exists |-> TRUE, age |-> 0, pid |-> pid]

Min(a, b) == IF a < b THEN a ELSE b

QuadModulus == 2 ^ QuadBits

\* FILETIME ticks in a number of milliseconds
Ticks(ms) == (ms * TicksPerSecond) \div 1000

\* The least age each check reads as stale; older files all look alike.
AgeCap(f) ==
    IF f = UPDATE_LOCK_FILE
    THEN (UPDATE_LOCK_TIMEOUT_MINUTES + 1) * 60 * TicksPerSecond
    ELSE (RESTART_LOCK_TIMEOUT_SECONDS + 1) * TicksPerSecond

\* Sleep(ms), and time passing by itself: every file gets older.
Elapse(fs, ms) ==
    [f \in LockFiles |->
        IF fs[f].exists
        THEN [fs[f] EXCEPT !.age = Min(@ + Ticks(ms), AgeCap(f))]
        ELSE fs[f]]

\* GetSystemTimeAsFileTime as a ULONGLONG: the clock's reading, any value
GetSystemTimeAsFileTime == 2 ^ (QuadBits - 1)

\* fileInfo.ftLastWriteTime as a ULONGLONG
ftLastWriteTime(fs, f) == (GetSystemTimeAsFileTime - fs[f].age) % QuadModulus

DeleteFileW(fs, f) == [fs EXCEPT ![f] = NoFile]

\* IsUpdateInProgress without its age test
IsUpdateInProgress_NeverStale(fs) ==
    [ret |-> fs[UPDATE_LOCK_FILE].exists, fs |-> fs]

\* bool IsUpdateInProgress(): the value returned and the files afterwards
IsUpdateInProgress(fs) ==
    LET lockPath == UPDATE_LOCK_FILE IN
    IF ~fs[lockPath].exists
    THEN [ret |-> FALSE, fs |-> fs]
    ELSE LET lockTime == ftLastWriteTime(fs, lockPath)
             currentTime == GetSystemTimeAsFileTime
             diffMinutes == ((currentTime - lockTime) % QuadModulus)
                                \div (TicksPerSecond * 60)
         IN  IF diffMinutes > UPDATE_LOCK_TIMEOUT_MINUTES
             THEN [ret |-> FALSE, fs |-> DeleteFileW(fs, lockPath)]
             ELSE [ret |-> TRUE, fs |-> fs]

\* IsRestartPending without its DeleteFileW
IsRestartPending_KeepsFile(fs) ==
    LET lockPath == RESTART_LOCK_FILE IN
    IF ~fs[lockPath].exists
    THEN [ret |-> FALSE, fs |-> fs]
    ELSE LET diffSeconds ==
                 ((GetSystemTimeAsFileTime - ftLastWriteTime(fs, lockPath))
                      % QuadModulus) \div TicksPerSecond
         IN  [ret |-> ~(diffSeconds > RESTART_LOCK_TIMEOUT_SECONDS), fs |-> fs]

\* bool IsRestartPending(): the value returned and the files afterwards
IsRestartPending(fs) ==
    LET lockPath == RESTART_LOCK_FILE IN
    IF ~fs[lockPath].exists
    THEN [ret |-> FALSE, fs |-> fs]
    ELSE LET lockTime == ftLastWriteTime(fs, lockPath)
             currentTime == GetSystemTimeAsFileTime
             diffSeconds == ((currentTime - lockTime) % QuadModulus)
                                \div TicksPerSecond
         IN  IF diffSeconds > RESTART_LOCK_TIMEOUT_SECONDS
             THEN [ret |-> FALSE, fs |-> DeleteFileW(fs, lockPath)]
             ELSE [ret |-> TRUE, fs |-> fs]

\* void CreateRestartLock(): CREATE_ALWAYS, the payload names the writer
CreateRestartLock(fs, pid) == [fs EXCEPT ![RESTART_LOCK_FILE] = NewFile(pid)]

\* RemoveRestartLock deleting nothing
RemoveRestartLock_Keeps(fs) == fs

\* void RemoveRestartLock()
RemoveRestartLock(fs) == DeleteFileW(fs, RESTART_LOCK_FILE)

-----------------------------------------------------------------------------
(* Processes and named mutexes *)

\* A main-app process: where it is, its image and arguments, whether it
\* holds a handle to the app's mutex, its window (none, created, minimized
\* or restored to the foreground), and the exit code of the process that was
\* last in the slot.
NoApp == [pc |-> "none", image |-> <<>>, args |-> <<>>, hMutex |-> FALSE,
          window |-> "none", exitCode |-> 0]

\* a process at the start of wWinMain
Started(image, args) ==
    [NoApp EXCEPT !.pc = "CreateMutexW", !.image = image, !.args = args]

\* CreateToolhelp32Snapshot: the image names of the running processes
Snapshot(apps, inst) ==
    {apps[a].image : a \in {b \in App : apps[b].pc # "none"}}
        \cup (IF inst THEN {InstallerImage} ELSE {})
        \cup {HelperImage}

\* The app's mutex object exists while a process holds a handle to it
\* (main.cpp:16, :108-110).
AppMutexExists(apps) == \E a \in App : apps[a].pc = "run" /\ apps[a].hMutex

\* the names IsInstallerRunning looks for (a1_service_helper.cpp:246-251)
installerNames ==
    << <<"a","1","-","t","o","o","l","s","-","s","e","t","u","p">>,
       <<"a","1","t","o","o","l","s","_","u","p","d","a","t","e">>,
       <<"a","1","_","t","o","o","l","s","_","s","e","t","u","p">>,
       <<"A","1","-","T","o","o","l","s","-","S","e","t","u","p">> >>

\* bool IsInstallerRunning()
IsInstallerRunning(snapshot) ==
    \E procName \in snapshot :
        \E i \in 1..Len(installerNames) :
            Found(ToLower(procName), ToLower(installerNames[i]))

\* IsAppRunning comparing the names with wcscmp
IsAppRunning_CaseSensitive(mutexOpens, snapshot) ==
    IF mutexOpens
    THEN TRUE
    ELSE \E szExeFile \in snapshot : szExeFile = APP_EXE_NAME

\* bool IsAppRunning(): OpenMutexW succeeded, or a process is named APP_EXE_NAME
IsAppRunning(mutexOpens, snapshot) ==
    IF mutexOpens
    THEN TRUE
    ELSE \E szExeFile \in snapshot : wcsicmp0(szExeFile, APP_EXE_NAME)

\* The supervisor's mutex object exists while a process holds a handle to it.
SupMutexExists(sp) == \E s \in Sup : sp[s].hMutex

\* checkOnce accepting the first spelling only
checkOnce_FirstSpelling(cmdLine) == Found(cmdLine, FLAG_CHECK_ONCE)

\* checkOnce, as wWinMain computes it from lpCmdLine
checkOnce(cmdLine) == Found(cmdLine, FLAG_CHECK_ONCE) \/ Found(cmdLine, FLAG_VERIFY)


-----------------------------------------------------------------------------
(* The supervisor, a1_service_helper.cpp.  A process's pc names the call it
   makes next. *)

NoSup == [pc |-> "off", cmdLine |-> <<>>, hMutex |-> FALSE, exitCode |-> 0,
          trace |-> <<>>, cycles |-> 0]

\* What a cycle did so far: the calls PerformCheck and RecoverApp made, in
\* order, with what each returned and, for RemoveRestartLock, whose file it
\* found ("" for the other calls).
Ev(e, r, f) == [ev |-> e, ret |-> r, obs |-> f]

Seen(f, s) ==
    IF ~f.exists THEN "absent" ELSE IF f.pid = Pid(s) THEN "own" ELSE "foreign"

Goto(s, label) == [sup EXCEPT ![s].pc = label]

Did(s, label, e, r, f) ==
    [sup EXCEPT ![s].pc = label, ![s].trace = Append(@, Ev(e, r, f))]

\* PerformCheck() is entered: a cycle starts.
StartCycle(r) ==
    [r EXCEPT !.pc = "IsUpdateInProgress", !.trace = <<>>,
              !.cycles = Min(@ + 1, MaxCycles)]

\* The supervisor process is started (Task Scheduler, registry, a user).
Launch(s) ==
    /\ sup[s].pc \in {"off", "exited"}
    /\ \E lpCmdLine \in CmdLines :
          sup' = [sup EXCEPT ![s] = [NoSup EXCEPT !.pc = "CreateMutexW",
                                                  !.cmdLine = lpCmdLine]]
    /\ UNCHANGED <<logs, files, appExe, app, installer, probe, injector, target>>

\* CreateMutexW never reporting an existing object
AlreadyExists_Never(sp) == FALSE

\* GetLastError() == ERROR_ALREADY_EXISTS after CreateMutexW
AlreadyExists(sp) == SupMutexExists(sp)

\* wWinMain, lines 75-90: CreateMutexW, and the first PerformCheck is entered
AcquireMutex(s) ==
    /\ sup[s].pc = "CreateMutexW"
    /\ sup' = [sup EXCEPT ![s] =
                 IF AlreadyExists(sup)
                 THEN [@ EXCEPT !.pc = "CloseDuplicate", !.hMutex = TRUE]
                 ELSE StartCycle([@ EXCEPT !.hMutex = TRUE])]
    /\ UNCHANGED <<logs, files, appExe, app, installer, probe, injector, target>>

\* wWinMain, lines 78-80: CloseHandle, Log, return 0
CloseDuplicate(s) ==
    /\ sup[s].pc = "CloseDuplicate"
    /\ sup' = [sup EXCEPT ![s].pc = "exited", ![s].hMutex = FALSE,
                          ![s].exitCode = 0]
    /\ UNCHANGED <<logs, files, appExe, app, installer, probe, injector, target>>

\* PerformCheck, lines 155-158
CheckUpdate(s) ==
    /\ sup[s].pc = "IsUpdateInProgress"
    /\ LET r == IsUpdateInProgress(files) IN
          /\ files' = r.fs
          /\ sup' = Did(s, IF r.ret THEN "CycleDone" ELSE "IsRestartPending",
                        "IsUpdateInProgress", r.ret, "")
    /\ UNCHANGED <<logs, appExe, app, installer, probe, injector, target>>

\* PerformCheck, lines 161-164
CheckRestart(s) ==
    /\ sup[s].pc = "IsRestartPending"
    /\ LET r == IsRestartPending(files) IN
          /\ files' = r.fs
          /\ sup' = Did(s, IF r.ret THEN "CycleDone" ELSE "IsInstallerRunning",
                        "IsRestartPending", r.ret, "")
    /\ UNCHANGED <<logs, appExe, app, installer, probe, injector, target>>

\* PerformCheck without the return at line 169
AfterInstallerCheck_NoReturn(r) == "IsAppRunning"

\* PerformCheck, lines 167-170: return when an installer runs
AfterInstallerCheck(r) == IF r THEN "CycleDone" ELSE "IsAppRunning"

\* PerformCheck, lines 167-170
CheckInstaller(s) ==
    /\ sup[s].pc = "IsInstallerRunning"
    /\ LET r == IsInstallerRunning(Snapshot(app, installer)) IN
          sup' = Did(s, AfterInstallerCheck(r), "IsInstallerRunning", r, "")
    /\ UNCHANGED <<logs, files, appExe, app, installer, probe, injector, target>>

\* PerformCheck, lines 173-178
CheckApp(s) ==
    /\ sup[s].pc = "IsAppRunning"
    /\ LET r == IsAppRunning(AppMutexExists(app), Snapshot(app, installer)) IN
          sup' = Did(s, IF r THEN "CycleDone" ELSE "CreateRestartLock",
                     "IsAppRunning", r, "")
    /\ UNCHANGED <<logs, files, appExe, app, installer, probe, injector, target>>

\* RecoverApp, line 343
RecoverCreateLock(s) ==
    /\ sup[s].pc = "CreateRestartLock"
    /\ files' = CreateRestartLock(files, Pid(s))
    /\ sup' = Did(s, "GetFileAttributesW", "CreateRestartLock", TRUE, "")
    /\ UNCHANGED <<logs, appExe, app, installer, probe, injector, target>>

\* RecoverApp, lines 348-352: the executable missing leads to the removal
RecoverFindExe(s) ==
    /\ sup[s].pc = "GetFileAttributesW"
    /\ sup' = Did(s, IF appExe THEN "CreateProcessW" ELSE "RemoveRestartLock",
                  "GetFileAttributesW", appExe, "")
    /\ UNCHANGED <<logs, files, appExe, app, installer, probe, injector, target>>

\* The process slot of the instance the supervisor starts; the other slots
\* are for instances somebody else starts.
SupApp == 1

\* RecoverApp returning from its failure branch without line 390
AfterCreateProcess_Return(ok) == IF ok THEN "Sleep" ELSE "CycleDone"

\* Where RecoverApp goes on after CreateProcessW (lines 363, 383)
AfterCreateProcess(ok) == IF ok THEN "Sleep" ELSE "RemoveRestartLock"

\* RecoverApp, lines 360-372 and 383-388: CreateProcessW starts a process
\* named APP_EXE_NAME with the two flags, or fails.
RecoverLaunch(s) ==
    /\ sup[s].pc = "CreateProcessW"
    /\ \/ /\ app[SupApp].pc = "none"
          /\ app' = [app EXCEPT ![SupApp] = Started(APP_EXE_NAME, RestartArgs)]
          /\ sup' = Did(s, AfterCreateProcess(TRUE), "CreateProcessW", TRUE, "")
       \/ /\ app' = app
          /\ sup' = Did(s, AfterCreateProcess(FALSE), "CreateProcessW", FALSE, "")
    /\ UNCHANGED <<logs, files, appExe, installer, probe, injector, target>>

\* RecoverApp, line 375: Sleep(5000)
RecoverSleep(s) ==
    /\ sup[s].pc = "Sleep"
    /\ files' = Elapse(files, RECOVER_SLEEP_MS)
    /\ sup' = Goto(s, "VerifyAppRunning")
    /\ UNCHANGED <<logs, appExe, app, installer, probe, injector, target>>

\* RecoverApp, lines 378-382: the outcome is only logged
RecoverVerify(s) ==
    /\ sup[s].pc = "VerifyAppRunning"
    /\ LET r == IsAppRunning(AppMutexExists(app), Snapshot(app, installer)) IN
          sup' = Did(s, "RemoveRestartLock", "VerifyAppRunning", r, "")
    /\ UNCHANGED <<logs, files, appExe, app, installer, probe, injector, target>>

\* RecoverApp, lines 350 and 390
RecoverRemoveLock(s) ==
    /\ sup[s].pc = "RemoveRestartLock"
    /\ files' = RemoveRestartLock(files)
    /\ sup' = Did(s, "CycleDone", "RemoveRestartLock", TRUE,
                  Seen(files[RESTART_LOCK_FILE], s))
    /\ UNCHANGED <<logs, appExe, app, installer, probe, injector, target>>

\* wWinMain returning after the first PerformCheck in either mode
AfterCheck_Once(r) ==
    [r EXCEPT !.pc = "exited", !.hMutex = FALSE, !.exitCode = 0, !.trace = <<>>]

\* wWinMain after PerformCheck returned: lines 88-89 with the flag,
\* lines 93-96 without
AfterCheck(r) ==
    IF checkOnce(r.cmdLine)
    THEN [r EXCEPT !.pc = "exited", !.hMutex = FALSE, !.exitCode = 0,
                   !.trace = <<>>]
    ELSE StartCycle(r)

\* wWinMain, lines 85-96: return 0 in verify mode, else Sleep and the next
\* PerformCheck
EndCycle(s) ==
    /\ sup[s].pc = "CycleDone"
    /\ sup' = [sup EXCEPT ![s] = AfterCheck(@)]
    /\ files' = IF checkOnce(sup[s].cmdLine)
                THEN files
                ELSE Elapse(files, CHECK_INTERVAL_MS)
    /\ UNCHANGED <<logs, appExe, app, installer, probe, injector, target>>

\* the steps of the process that has, or is about to get, the mutex
SupCycleStep(s) ==
    \/ AcquireMutex(s)
    \/ CheckUpdate(s)
    \/ CheckRestart(s)
    \/ CheckInstaller(s)
    \/ CheckApp(s)
    \/ RecoverCreateLock(s)
    \/ RecoverFindExe(s)
    \/ RecoverLaunch(s)
    \/ RecoverSleep(s)
    \/ RecoverVerify(s)
    \/ RecoverRemoveLock(s)
    \/ EndCycle(s)

\* every step of a supervisor process
SupStep(s) == CloseDuplicate(s) \/ SupCycleStep(s)

-----------------------------------------------------------------------------
(* The main app's single-instance guard, main.cpp *)

\* Somebody else starts the main app from a file named image with the
\* arguments args.
UserStartWith(a, image, args) ==
    /\ a # SupApp
    /\ app[a].pc = "none"
    /\ app' = [app EXCEPT ![a] = Started(image, args)]
    /\ UNCHANGED <<logs, sup, files, appExe, installer, probe, injector, target>>

UserStart(a, image) == UserStartWith(a, image, <<>>)

UserStartApp(a) == UserStart(a, UserImage)

UserStartAnyApp(a) == \E image \in {UserImage, CopyImage} : UserStart(a, image)

EXIT_FAILURE == 1

\* wcsstr(command_line, flag) != nullptr, lines 41-51, the command line
\* given by its arguments
HasFlag(args, flag) == \E i \in DOMAIN args : args[i] = flag

\* wWinMain never minimizing
Minimizes_Never(args) == FALSE

\* wWinMain, line 92: autoStart || crashRestart || serviceRestart
Minimizes(args) ==
    \/ HasFlag(args, "--auto-start")
    \/ HasFlag(args, "--crash-restart")
    \/ HasFlag(args, "--service-restart")

\* wWinMain, line 18
AlreadyRunning(hMutex, alreadyExists) == hMutex /\ alreadyExists

\* the processes that have a window titled "A1 Tools"
Windows(apps) == {b \in App : apps[b].window # "none"}

\* wWinMain, lines 23-27: FindWindowW finds the window of b, or none
RestoreExisting(apps, b) ==
    IF b \in Windows(apps)
    THEN [apps EXCEPT ![b].window = "foreground"]
    ELSE apps

\* the process in slot a returns from wWinMain
Returned_(apps, a, code) == [apps EXCEPT ![a] = [NoApp EXCEPT !.exitCode = code]]

\* wWinMain, lines 78-97: the window is created, and minimized for an
\* instance started with one of the flags; FindWindowW finds the window
\* just created, which is on top of the others
CreateWindow(apps, a, hMutex, created) ==
    IF ~created
    THEN Returned_(apps, a, EXIT_FAILURE)
    ELSE [apps EXCEPT ![a].pc = "run", ![a].hMutex = hMutex,
                      ![a].window = IF Minimizes(apps[a].args)
                                    THEN "minimized" ELSE "created"]

\* wWinMain, lines 16-97.  CreateMutexW gives a handle or NULL; with a
\* handle to a mutex that exists the instance brings the window of b to the
\* foreground, closes the handle and returns 0; else the window is created,
\* or window.Create fails.
wWinMain(apps, a, hMutex, b, created) ==
    IF AlreadyRunning(hMutex, AppMutexExists(apps))
    THEN Returned_(RestoreExisting(apps, b), a, 0)
    ELSE CreateWindow(apps, a, hMutex, created)

AppGuard(a) ==
    /\ app[a].pc = "CreateMutexW"
    /\ \E hMutex \in BOOLEAN, created \in BOOLEAN, b \in App :
          /\ (b \in Windows(app) \/ Windows(app) = {})
          /\ app' = wWinMain(app, a, hMutex, b, created)
    /\ UNCHANGED <<logs, sup, files, appExe, installer, probe, injector, target>>

\* wWinMain, lines 99-112: the message loop ends, the handle is closed
AppExit(a) ==
    /\ app[a].pc = "run"
    /\ app' = Returned_(app, a, 0)
    /\ UNCHANGED <<logs, sup, files, appExe, installer, probe, injector, target>>

AppStep(a) == AppGuard(a) \/ AppExit(a)

-----------------------------------------------------------------------------
(* The environment: the installer, the other restart mechanisms, time *)

\* An installer starts and writes the update marker.
InstallerStart ==
    /\ ~installer
    /\ installer' = TRUE
    /\ files' = [files EXCEPT ![UPDATE_LOCK_FILE] = NewFile(InstallerPid)]
    /\ UNCHANGED <<logs, sup, appExe, app, probe, injector, target>>

\* The installer removes or writes a1_tools.exe.
InstallerReplaceExe ==
    /\ installer
    /\ appExe' = ~appExe
    /\ UNCHANGED <<logs, sup, files, app, installer, probe, injector, target>>

\* The installer completes and deletes its marker.
InstallerFinish ==
    /\ installer
    /\ installer' = FALSE
    /\ files' = DeleteFileW(files, UPDATE_LOCK_FILE)
    /\ UNCHANGED <<logs, sup, appExe, app, probe, injector, target>>

\* The installer dies and leaves its marker.
InstallerCrash ==
    /\ installer
    /\ installer' = FALSE
    /\ UNCHANGED <<logs, sup, files, appExe, app, probe, injector, target>>

\* Another restart mechanism writes the restart marker.
OtherRestartBegin ==
    /\ files' = [files EXCEPT ![RESTART_LOCK_FILE] = NewFile(OtherPid)]
    /\ UNCHANGED <<logs, sup, appExe, app, installer, probe, injector, target>>

\* The other restart mechanism completes and deletes the marker it wrote.
OtherRestartEnd ==
    /\ files[RESTART_LOCK_FILE].exists
    /\ files[RESTART_LOCK_FILE].pid = OtherPid
    /\ files' = DeleteFileW(files, RESTART_LOCK_FILE)
    /\ UNCHANGED <<logs, sup, appExe, app, installer, probe, injector, target>>

\* Time passes.
TimePasses ==
    /\ files' = Elapse(files, CHECK_INTERVAL_MS)
    /\ UNCHANGED <<logs, sup, appExe, app, installer, probe, injector, target>>

EnvStep ==
    \/ InstallerStart
    \/ InstallerReplaceExe
    \/ InstallerFinish
    \/ InstallerCrash
    \/ OtherRestartBegin
    \/ OtherRestartEnd
    \/ TimePasses

-----------------------------------------------------------------------------
(* PrivacyInjector, privacy_injector.cpp, and the payload it loads into the
   target processes, privacy_payload.cpp.  The controller is single-threaded:
   a public call runs to its return.  What the operating system and the
   target do to a call (a call failing, the remote thread ending with some
   exit code or not ending within the wait) is an outcome the caller does
   not choose. *)

TPid == 1..NTarget
Win == 1..NWin

\* GetExitCodeThread's value for a thread that has not ended
STILL_ACTIVE == 259

\* the base address LoadLibraryW returns in the target, as the exit code
RemoteModule(pid) == 4096 * pid

PAYLOAD_DLL == <<"p","r","i","v","a","c","y","_","p","a","y","l","o","a","d",".","d","l","l">>

DOT_EXE == <<".","e","x","e">>

\* static std::wstring ToLowerCase(const std::wstring& str)
ToLowerCase(str) == [i \in 1..Len(str) |-> towlower(str[i])]

\* A process: its image name, its top-level windows that are visible, those
\* excluded from capture, whether the payload is loaded in it, and how many
\* remote load-library threads were started in it.
NoTarget == [image |-> <<>>, visible |-> {}, excluded |-> {}, loaded |-> FALSE,
             loads |-> 0]

NoTargets == [p \in TPid |-> NoTarget]

\* std::map: the pairs of a map, one per key
MapHas(m, k) == \E e \in m : e[1] = k

MapGet(m, k) == (CHOOSE e \in m : e[1] = k)[2]

\* operator[] followed by an assignment
MapPut(m, k, v) == {e \in m : e[1] # k} \cup {<<k, v>>}

\* What the last public call did: its arguments (for Initialize, hide says
\* whether the file exists) and the value returned (a set of pids in pids),
\* the names that were marked hidden when it began and, for each process it came
\* to, whether HideProcessWindowsByPid found windows, whether InjectDll found
\* a record, how far InjectDll and the remote call got (the call that failed
\* or what became of the thread, "" when no API call was made) and what they
\* returned.
NoByPid == [ran |-> FALSE, windows |-> FALSE, hadRecord |-> FALSE,
            inj |-> "", injRet |-> FALSE, call |-> "", ret |-> FALSE]

NoLog == [op |-> "", name |-> <<>>, hide |-> FALSE, ret |-> 0,
          hidden |-> {}, pids |-> {}, by |-> [p \in TPid |-> NoByPid],
          processes |-> <<>>, outs |-> <<>>]

\* PrivacyInjector::PrivacyInjector(), with the resources the calls made so
\* far still hold and the record of the last call
NoInjector == [initialized_ |-> FALSE, payload_dll_path_ |-> <<>>,
               injected_processes_ |-> {}, hidden_process_names_ |-> {},
               held |-> {}, log |-> NoLog]

\* std::vector<DWORD> GetProcessIdsByName(processName), as a set
GetProcessIdsByName(processName, tg) ==
    LET lower == ToLowerCase(processName)
        lowerName == IF ~Found(lower, DOT_EXE) THEN lower \o DOT_EXE ELSE lower
    IN  {p \in DOMAIN tg :
            /\ tg[p].image # <<>>
            /\ LET exeName == ToLowerCase(tg[p].image)
               IN  exeName = lowerName \/ Found(exeName, lowerName)}

\* std::vector<HWND> GetProcessWindows(pid): the visible top-level windows
GetProcessWindows(pid, tg) == tg[pid].visible

\* One API call on a path through a function: a call that acquires a
\* resource, one that releases it, one that fails, any other.
Acq(api, res) == [api |-> api, act |-> "acquire", res |-> res]
Rel(api, res) == [api |-> api, act |-> "release", res |-> res]
Fail(api) == [api |-> api, act |-> "fail", res |-> ""]
Use(api) == [api |-> api, act |-> "use", res |-> ""]

\* the resources acquired and not released on a path
RECURSIVE HeldAfter(_, _)
HeldAfter(path, held) ==
    IF path = <<>> THEN held
    ELSE LET c == Head(path) IN
         HeldAfter(Tail(path),
                   IF c.act = "acquire" THEN held \cup {c.res}
                   ELSE IF c.act = "release" THEN held \ {c.res}
                   ELSE held)

Called(path, api) == \E i \in DOMAIN path : path[i].api = api

\* How InjectDll can go once it is past the record check: the call that
\* fails, or what became of the remote thread.
InjectOutcomes ==
    {"OpenProcess", "VirtualAllocEx", "WriteProcessMemory", "GetProcAddress",
     "CreateRemoteThread", "zero", "loaded", "timeout", "late"}

\* InjectDll's cleanup without its VirtualFreeEx
InjectCleanup_KeepsBuffer == << Rel("CloseHandle", "hProcess") >>

\* InjectDll, lines 134-135, 144-145, 155-156 and 169-170
InjectCleanup ==
    << Rel("VirtualFreeEx", "remotePath"), Rel("CloseHandle", "hProcess") >>

\* InjectDll, lines 111-170: the API calls on the path with outcome o
InjectPath(o) ==
    LET open == Acq("OpenProcess", "hProcess")
        alloc == Acq("VirtualAllocEx", "remotePath")
        write == Use("WriteProcessMemory")
        proc == Use("GetProcAddress")
        close == Rel("CloseHandle", "hProcess")
    IN  CASE o = "OpenProcess" -> << Fail("OpenProcess") >>
          [] o = "VirtualAllocEx" -> << open, Fail("VirtualAllocEx"), close >>
          [] o = "WriteProcessMemory" ->
                << open, alloc, Fail("WriteProcessMemory") >> \o InjectCleanup
          [] o = "GetProcAddress" ->
                << open, alloc, write, Fail("GetProcAddress") >>
                   \o InjectCleanup
          [] o = "CreateRemoteThread" ->
                << open, alloc, write, proc, Fail("CreateRemoteThread") >>
                   \o InjectCleanup
          [] OTHER ->
                << open, alloc, write, proc,
                   Acq("CreateRemoteThread", "hThread"),
                   Use("WaitForSingleObject"), Use("GetExitCodeThread"),
                   Rel("CloseHandle", "hThread") >> \o InjectCleanup

\* InjectDll, lines 161-166: the exit code read after the wait.  A thread
\* that has not ended within the wait ("timeout": it never ends, "late": it
\* ends later) has the exit code STILL_ACTIVE.
LoadExitCode(o, pid) ==
    IF o = "loaded" THEN RemoteModule(pid)
    ELSE IF o = "zero" THEN 0
    ELSE STILL_ACTIVE

\* the target after a remote load-library thread was started in it
AfterLoadThread(tg, pid, o) ==
    [tg EXCEPT ![pid].loads = Min(@ + 1, MaxLoads),
               ![pid].loaded = @ \/ o \in {"loaded", "late"}]

\* InjectDll without the check of lines 106-109
AlreadyInjected_Never(c, pid) == FALSE

\* InjectDll, line 107
AlreadyInjected(c, pid) == MapHas(c.injected_processes_, pid)

\* the controller holding what a path leaves unreleased
Holding(c, path) == [c EXCEPT !.held = HeldAfter(path, @)]

\* InjectDll, lines 172-178, with the exit code read and the controller and
\* the target after the thread
StoreModule(held, t, pid, o, path, remoteModule) ==
    [ret |-> remoteModule # 0,
     c |-> IF remoteModule # 0
           THEN [held EXCEPT !.injected_processes_ =
                                MapPut(@, pid, remoteModule)]
           ELSE held,
     t |-> t, calls |-> path, got |-> o]

\* InjectDll, lines 111-178, along the path of API calls
AfterInjectPath(c, tg, pid, o, path) ==
    IF ~Called(path, "GetExitCodeThread")
    THEN [ret |-> FALSE, c |-> Holding(c, path), t |-> tg, calls |-> path,
          got |-> o]
    ELSE StoreModule(Holding(c, path), AfterLoadThread(tg, pid, o), pid, o,
                     path, LoadExitCode(o, pid))

\* bool InjectDll(DWORD pid): the value returned, the controller and the
\* targets afterwards, the API calls made
InjectDll(c, tg, pid, o) ==
    IF c.payload_dll_path_ = <<>>
    THEN [ret |-> FALSE, c |-> c, t |-> tg, calls |-> <<>>, got |-> ""]
    ELSE IF AlreadyInjected(c, pid)
    THEN [ret |-> TRUE, c |-> c, t |-> tg, calls |-> <<>>, got |-> ""]
    ELSE AfterInjectPath(c, tg, pid, o, InjectPath(o))

\* How the remote call can go once the module is found in the target
CallOutcomes ==
    {"OpenProcess", "EnumProcessModules", "LoadLibraryW", "GetProcAddress",
     "CreateRemoteThread", "done", "none", "timeout"}

\* CallSetWindowVisibility trusting the record instead of the module list
ModuleFound_Always(c, tg, pid) == TRUE

\* CallSetWindowVisibility, lines 202-218: the payload is among the
\* target's modules
ModuleFound(c, tg, pid) ==
    tg[pid].loaded /\ Found(c.payload_dll_path_, PAYLOAD_DLL)

\* CallSetWindowVisibility, lines 191-270: the API calls on the path with
\* outcome o
CallPath(o, found) ==
    LET open == Acq("OpenProcess", "hProcess")
        close == Rel("CloseHandle", "hProcess")
        enum == Use("EnumProcessModules")
        load == Acq("LoadLibraryW", "localDll")
        proc == Use("GetProcAddress")
        free == Rel("FreeLibrary", "localDll")
    IN  CASE o = "OpenProcess" -> << Fail("OpenProcess") >>
          [] o = "EnumProcessModules" ->
                << open, Fail("EnumProcessModules"), close >>
          [] ~found -> << open, enum, close >>
          [] o = "LoadLibraryW" -> << open, enum, Fail("LoadLibraryW"), close >>
          [] o = "GetProcAddress" ->
                << open, enum, load, Fail("GetProcAddress"), free, close >>
          [] o = "CreateRemoteThread" ->
                << open, enum, load, proc, free, Fail("CreateRemoteThread"),
                   close >>
          [] OTHER ->
                << open, enum, load, proc, free,
                   Acq("CreateRemoteThread", "hThread"),
                   Use("WaitForSingleObject"), Use("GetExitCodeThread"),
                   Rel("CloseHandle", "hThread"), close >>

\* privacy_payload.cpp, HideAllProcessWindows: every visible window of the
\* process gets or loses the exclusion from capture
HideAllProcessWindows(tg, pid, hide) ==
    [tg EXCEPT ![pid].excluded = IF hide THEN @ \cup tg[pid].visible
                                 ELSE @ \ tg[pid].visible]

\* CallSetWindowVisibility, lines 264-267: the exit code read after the
\* wait: the count HideAllProcessWindows returns, nothing counted when
\* SetWindowDisplayAffinity fails, STILL_ACTIVE for a thread still running
CallExitCode(o, tg, pid) ==
    IF o = "done" THEN Cardinality(tg[pid].visible)
    ELSE IF o = "none" THEN 0
    ELSE STILL_ACTIVE

\* CallSetWindowVisibility, lines 191-276, along the path of API calls, i
\* being what InjectDll returned
RemoteCall(i, pid, hide, o, path) ==
    LET ran == Called(path, "GetExitCodeThread")
        exitCode == IF ran THEN CallExitCode(o.call, i.t, pid) ELSE 0
    IN  [ret |-> exitCode > 0,
         c |-> Holding(i.c, path),
         t |-> IF ran /\ o.call = "done"
               THEN HideAllProcessWindows(i.t, pid, hide)
               ELSE i.t,
         injRet |-> TRUE, inj |-> i.got,
         call |-> IF Called(path, "LoadLibraryW") \/ ran
                     \/ path[Len(path)].act = "fail"
                  THEN o.call ELSE "nomodule"]

\* CallSetWindowVisibility, lines 185-189 and on
AfterInjectDll(i, pid, hide, o) ==
    IF ~i.ret
    THEN [ret |-> FALSE, c |-> i.c, t |-> i.t, injRet |-> FALSE,
          inj |-> i.got, call |-> ""]
    ELSE RemoteCall(i, pid, hide, o,
                    CallPath(o.call, ModuleFound(i.c, i.t, pid)))

\* bool CallSetWindowVisibility(DWORD pid, HWND hwnd, bool hide), with
\* o.inj what becomes of InjectDll and o.call what becomes of the remote call
CallSetWindowVisibility(c, tg, pid, hide, o) ==
    AfterInjectDll(InjectDll(c, tg, pid, o.inj), pid, hide, o)

\* HideProcessWindowsByPid going on without windows
NoWindows_Never(windows) == FALSE

\* HideProcessWindowsByPid, line 306
NoWindows(windows) == windows = {}

\* HideProcessWindowsByPid, lines 310-319: the value of
\* CallSetWindowVisibility is returned; had says whether the pid had a record
\* when the call began, windows is what GetProcessWindows found
ByPidReturns(r, pid, had, windows) ==
    [ret |-> r.ret, t |-> r.t,
     c |-> [r.c EXCEPT !.log.by[pid] =
               [ran |-> TRUE, windows |-> windows # {}, hadRecord |-> had,
                inj |-> r.inj, injRet |-> r.injRet,
                call |-> r.call, ret |-> r.ret]]]

\* bool HideProcessWindowsByPid(DWORD pid, bool hide)
HideProcessWindowsByPid(c, tg, pid, hide, o) ==
    IF NoWindows(GetProcessWindows(pid, tg))
    THEN [ret |-> FALSE, t |-> tg,
          c |-> [c EXCEPT !.log.by[pid] = [NoByPid EXCEPT !.ran = TRUE]]]
    ELSE ByPidReturns(CallSetWindowVisibility(c, tg, pid, hide, o), pid,
                      MapHas(c.injected_processes_, pid),
                      GetProcessWindows(pid, tg))

\* HideProcessWindows, lines 288-292: the loop over the pids, in ascending
\* order, counting those HideProcessWindowsByPid returned true for
RECURSIVE ForEachPid(_, _, _, _, _, _)
\* the loop counting every pid it comes to
Counting_Every(r, pids, hide, o, totalAffected) ==
    ForEachPid(r.c, r.t, pids, hide, o, totalAffected + 1)

Counting(r, pids, hide, o, totalAffected) ==
    ForEachPid(r.c, r.t, pids, hide, o,
               totalAffected + (IF r.ret THEN 1 ELSE 0))

ForEachPid(c, tg, pids, hide, o, totalAffected) ==
    IF pids = {}
    THEN [c |-> c, t |-> tg, totalAffected |-> totalAffected]
    ELSE LET pid == CHOOSE p \in pids : \A q \in pids : p <= q
         IN  Counting(HideProcessWindowsByPid(c, tg, pid, hide, o),
                      pids \ {pid}, hide, o, totalAffected)

\* HideProcessWindows recording the name whatever the count
Recorded_Always(totalAffected) == TRUE

\* HideProcessWindows, line 294
Recorded(totalAffected) == totalAffected > 0

\* a name without a trailing ".exe"
WithoutExtension(lowerName) ==
    IF Len(lowerName) > 4
       /\ SubSeq(lowerName, Len(lowerName) - 3, Len(lowerName)) = DOT_EXE
    THEN SubSeq(lowerName, 1, Len(lowerName) - 4)
    ELSE lowerName

\* HideProcessWindows recording the name without its extension
Record_WithoutExtension(r, lowerName, hide) ==
    [ret |-> r.totalAffected,
     t |-> r.t,
     c |-> IF r.totalAffected > 0
           THEN [r.c EXCEPT
                   !.hidden_process_names_ =
                       MapPut(@, WithoutExtension(lowerName), hide)]
           ELSE r.c]

\* HideProcessWindows, lines 293-298, r being what the loop left
Record(r, lowerName, hide) ==
    [ret |-> r.totalAffected,
     t |-> r.t,
     c |-> IF Recorded(r.totalAffected)
           THEN [r.c EXCEPT
                   !.hidden_process_names_ = MapPut(@, lowerName, hide)]
           ELSE r.c]

\* int HideProcessWindows(const std::wstring& processName, bool hide)
HideProcessWindows(c, tg, processName, hide, o) ==
    IF ~c.initialized_
    THEN [ret |-> 0, c |-> c, t |-> tg]
    ELSE Record(ForEachPid(c, tg, GetProcessIdsByName(processName, tg),
                           hide, o, 0),
                ToLowerCase(processName), hide)

\* std::vector<std::wstring> GetHiddenProcesses() const, as a set
GetHiddenProcesses(c) ==
    {e[1] : e \in {f \in c.hidden_process_names_ : f[2]}}

\* IsProcessHidden answering for any entry, whatever its flag
IsProcessHidden_AnyEntry(c, processName) ==
    MapHas(c.hidden_process_names_, ToLowerCase(processName))

\* bool IsProcessHidden(const std::wstring& processName) const
IsProcessHidden(c, processName) ==
    LET lowerName == ToLowerCase(processName) IN
    /\ MapHas(c.hidden_process_names_, lowerName)
    /\ MapGet(c.hidden_process_names_, lowerName)

\* RestoreAll, lines 339-343: HideProcessWindows(name, false) for every name
\* marked hidden
RECURSIVE ForEachHidden(_, _, _, _)
Restoring(r, names, o) == ForEachHidden(r.c, r.t, names, o)

ForEachHidden(c, tg, names, o) ==
    IF names = {}
    THEN [c |-> c, t |-> tg]
    ELSE LET name == CHOOSE n \in names : TRUE
         IN  Restoring(HideProcessWindows(c, tg, name, FALSE, o),
                       names \ {name}, o)

\* RestoreAll, line 345
ClearRecords(m) == {}

\* RestoreAll, lines 344-345, r being what the loop left
ClearAll(r) ==
    [t |-> r.t,
     c |-> [r.c EXCEPT !.hidden_process_names_ = {},
                       !.injected_processes_ = ClearRecords(@)]]

\* void RestoreAll()
RestoreAll(c, tg, o) ==
    ClearAll(ForEachHidden(c, tg, GetHiddenProcesses(c), o))

\* Initialize taking any path
Initialize_IgnoresFile(c, payloadDllPath, exists) ==
    [ret |-> TRUE,
     c |-> [c EXCEPT !.payload_dll_path_ = payloadDllPath,
                     !.initialized_ = TRUE]]

\* bool Initialize(const std::wstring& payloadDllPath), with whether the
\* file exists
Initialize(c, payloadDllPath, exists) ==
    IF ~exists
    THEN [ret |-> FALSE, c |-> c]
    ELSE [ret |-> TRUE,
          c |-> [c EXCEPT !.payload_dll_path_ = payloadDllPath,
                          !.initialized_ = TRUE]]

\* the names the GUI asks for, and the images of the targets
NAME_NP == <<"n","p">>
NAME_NP_EXE == <<"N","p",".","E","X","E">>
NAME_P_EXE == <<"P",".","E","X","E">>
NAME_CALC == <<"c","a","l","c">>
IMAGE_NP == <<"N","p",".","e","x","e">>
IMAGE_P == <<"p",".","e","x","e">>

ProcessNames == {NAME_NP, NAME_NP_EXE, NAME_CALC}

\* the image of the process with id p: Np.exe or p.exe.  The names "np" and
\* "Np.EXE" match Np.exe, "P.EXE" matches both, "calc" none.
TargetImage(p) == IF p % 2 = 1 THEN IMAGE_NP ELSE IMAGE_P

\* What the operating system and the targets do to one public call: one of
\* InjectDll's outcomes with the remote call done, or the payload loaded and
\* one of the remote call's outcomes.
Outcomes ==
    {[inj |-> i, call |-> "done"] : i \in InjectOutcomes}
       \cup {[inj |-> "loaded", call |-> k] : k \in CallOutcomes}

Began(c, op, name, hide) ==
    [c EXCEPT !.log = [NoLog EXCEPT !.op = op, !.name = name, !.hide = hide,
                                    !.hidden = GetHiddenProcesses(c)]]

\* the state after a call that returned r
InitializeReturns(r) ==
    injector' = [r.c EXCEPT !.log.ret = IF r.ret THEN 1 ELSE 0]

HideProcessWindowsReturns(r) ==
    /\ injector' = [r.c EXCEPT !.log.ret = r.ret]
    /\ target' = r.t

RestoreAllReturns(r) ==
    /\ injector' = r.c
    /\ target' = r.t

\* flutter_window.cpp calls Initialize; the payload file is there or not
DoInitialize ==
    /\ \E exists \in BOOLEAN :
          InitializeReturns(
              Initialize(Began(injector, "Initialize", PAYLOAD_DLL, exists),
                         PAYLOAD_DLL, exists))
    /\ UNCHANGED <<logs, sup, files, appExe, app, installer, probe, target>>

\* a call of HideProcessWindows with one of the names and outcomes
HideProcessWindowsCall(names, outcomes) ==
    /\ \E processName \in names, hide \in BOOLEAN, o \in outcomes :
          HideProcessWindowsReturns(
              HideProcessWindows(
                  Began(injector, "HideProcessWindows", processName, hide),
                  target, processName, hide, o))
    /\ UNCHANGED <<logs, sup, files, appExe, app, installer, probe>>

DoHideProcessWindows == HideProcessWindowsCall(ProcessNames, Outcomes)

\* a call of RestoreAll with one of the outcomes
RestoreAllCall(outcomes) ==
    /\ \E o \in outcomes :
          RestoreAllReturns(
              RestoreAll(Began(injector, "RestoreAll", <<>>, FALSE),
                         target, o))
    /\ UNCHANGED <<logs, sup, files, appExe, app, installer, probe>>

DoRestoreAll == RestoreAllCall(Outcomes)

\* A target shows or hides one of its windows.
ShowWindow(p, w) ==
    /\ target[p].image # <<>>
    /\ target' = [target EXCEPT ![p].visible =
                     IF w \in @ THEN @ \ {w} ELSE @ \cup {w}]
    /\ UNCHANGED <<logs, sup, files, appExe, app, installer, probe, injector>>

\* A target exits and its pid is given to a new process of the same image:
\* no window yet, no payload loaded.
ProcessReplaced(p) ==
    /\ target[p].image # <<>>
    /\ target[p] # [NoTarget EXCEPT !.image = target[p].image]
    /\ target' = [target EXCEPT ![p] =
                     [NoTarget EXCEPT !.image = target[p].image]]
    /\ UNCHANGED <<logs, sup, files, appExe, app, installer, probe, injector>>

\* MultiByteToWideChar(CP_UTF8, 0, ...): a byte below 0x80 is the character
\* of the same code, a lead byte with its continuation byte is one character,
\* and a byte that starts no valid sequence becomes U+FFFD.
LEAD_BYTE == "0xC3"
CONTINUATION_BYTE == "0xA9"
E_ACUTE == "U+00E9"
REPLACEMENT_CHARACTER == "U+FFFD"

RECURSIVE MultiByteToWideChar(_)
MultiByteToWideChar(str) ==
    IF str = <<>> THEN <<>>
    ELSE IF Head(str) = LEAD_BYTE /\ Len(str) >= 2
            /\ str[2] = CONTINUATION_BYTE
    THEN <<E_ACUTE>> \o MultiByteToWideChar(Tail(Tail(str)))
    ELSE IF Head(str) \in {LEAD_BYTE, CONTINUATION_BYTE}
    THEN <<REPLACEMENT_CHARACTER>> \o MultiByteToWideChar(Tail(str))
    ELSE <<Head(str)>> \o MultiByteToWideChar(Tail(str))

\* static std::wstring Utf8ToWstring(const std::string& str)
Utf8ToWstring(str) == IF str = <<>> THEN <<>> ELSE MultiByteToWideChar(str)

\* An entry of the list passed to hideMultipleProcesses: a string or a value
\* of another type.
StringValue(str) == [isString |-> TRUE, value |-> str]
OtherValue == [isString |-> FALSE, value |-> <<>>]

\* hideMultipleProcesses, lines 135-141: the loop over the list, outs[i]
\* being what the operating system does to the call for the i-th entry
RECURSIVE ForEachProc(_, _, _, _, _, _, _)
\* the loop keeping the count of the last call only
Adding_Last(r, processes, hide, outs, i, totalAffected) ==
    ForEachProc(r.c, r.t, processes, hide, outs, i, r.ret)

Adding(r, processes, hide, outs, i, totalAffected) ==
    ForEachProc(r.c, r.t, processes, hide, outs, i, totalAffected + r.ret)

ForEachProc(c, tg, processes, hide, outs, i, totalAffected) ==
    IF i > Len(processes)
    THEN [ret |-> totalAffected, c |-> c, t |-> tg]
    ELSE IF ~processes[i].isString
    THEN ForEachProc(c, tg, processes, hide, outs, i + 1, totalAffected)
    ELSE Adding(HideProcessWindows(c, tg, Utf8ToWstring(processes[i].value),
                                   hide, outs[i]),
                processes, hide, outs, i + 1, totalAffected)

\* the handler of "hideMultipleProcesses", lines 133-143
hideMultipleProcesses(c, tg, processes, hide, outs) ==
    ForEachProc(c, tg, processes, hide, outs, 1, 0)

BeganList(c, processes, hide, outs) ==
    [c EXCEPT !.log = [NoLog EXCEPT !.op = "hideMultipleProcesses",
                                    !.processes = processes, !.hide = hide,
                                    !.outs = outs,
                                    !.hidden = GetHiddenProcesses(c)]]

\* a call of hideMultipleProcesses with one of the lists
hideMultipleProcessesCall(lists, outcomes) ==
    /\ \E processes \in lists, hide \in BOOLEAN :
          \E outs \in [1..Len(processes) -> outcomes] :
             HideProcessWindowsReturns(
                 hideMultipleProcesses(
                     BeganList(injector, processes, hide, outs),
                     target, processes, hide, outs))
    /\ UNCHANGED <<logs, sup, files, appExe, app, installer, probe>>

-----------------------------------------------------------------------------
(* The supervisor's log file *)

MaxMessage == 2
MaxCalls == 3
NearLimit == 24

LOG_FILE_NAME == "service_helper.log"
MAX_LOG_SIZE == 1024 * 1024

\* wWinMain, line 63, the directory left out
g_logFilePath == LOG_FILE_NAME

\* Log, line 129
backupPath == g_logFilePath \o ".old"

\* A directory: the size in bytes of each file that exists.  The last Log
\* call: how many calls there were, the size it found (-1: no file), the
\* bytes of its line and whether _wfopen gave a file.
NoDirectory == << >>

NoCall == [calls |-> 0, found |-> 0 - 1, line |-> 0, opened |-> FALSE]

NoLogs == [dir |-> NoDirectory, last |-> NoCall]

\* GetFileAttributesExW succeeds, line 127
FileExists(dir, path) == path \in DOMAIN dir

\* fileInfo.nFileSizeLow
nFileSizeLow(dir, path) == dir[path]

\* DeleteFileW(backupPath.c_str()), line 130
DeleteBackup(dir, path) == [f \in DOMAIN dir \ {path} |-> dir[f]]

\* MoveFileW without MOVEFILE_REPLACE_EXISTING: nothing moves onto a file
\* that exists
MoveToBackup(dir, from, to) ==
    IF from \in DOMAIN dir /\ to \notin DOMAIN dir
    THEN [f \in (DOMAIN dir \ {from}) \cup {to} |->
             IF f = to THEN dir[from] ELSE dir[f]]
    ELSE dir

\* Log never rotating
TooLarge_Never(size) == FALSE

\* Log, line 128
TooLarge(size) == size > MAX_LOG_SIZE

\* Log, lines 127-133
Rotate(dir) ==
    IF FileExists(dir, g_logFilePath)
       /\ TooLarge(nFileSizeLow(dir, g_logFilePath))
    THEN MoveToBackup(DeleteBackup(dir, backupPath), g_logFilePath,
                      backupPath)
    ELSE dir

\* wcsftime(timestamp, 32, L"%Y-%m-%d %H:%M:%S", ...): the characters it
\* writes
TIMESTAMP_CHARS == 19

\* fwprintf(file, L"[%s] %s\n", ...) to a UTF-8 text stream: the bytes of
\* the line for a message of ASCII characters, the line end two bytes
LineBytes(message) == 1 + TIMESTAMP_CHARS + 2 + message + 2

\* Log, lines 143-147: the line is appended when _wfopen gave a file
AppendLine(dir, path, bytes, opened) ==
    IF ~opened THEN dir
    ELSE [f \in DOMAIN dir \cup {path} |->
             IF f = path
             THEN (IF path \in DOMAIN dir THEN dir[path] ELSE 0) + bytes
             ELSE dir[f]]

\* void Log(const std::wstring& message), the message given by its length,
\* opened saying whether _wfopen gives a file
Log_(dir, message, opened) ==
    IF g_logFilePath = ""
    THEN dir
    ELSE AppendLine(Rotate(dir), g_logFilePath, LineBytes(message), opened)

SizeFound(dir) ==
    IF FileExists(dir, g_logFilePath) THEN dir[g_logFilePath] ELSE 0 - 1

\* a call of Log
DoLog ==
    /\ logs.last.calls < MaxCalls
    /\ \E message \in 0..MaxMessage, opened \in BOOLEAN :
          logs' = [dir |-> Log_(logs.dir, message, opened),
                   last |-> [calls |-> logs.last.calls + 1,
                             found |-> SizeFound(logs.dir),
                             line |-> LineBytes(message),
                             opened |-> opened]]
    /\ UNCHANGED <<sup, files, appExe, app, installer, probe, injector,
                   target>>

\* the sizes of a log file that earlier calls left: anything up to the limit
\* and one line more
SizesLeft ==
    (MAX_LOG_SIZE - NearLimit)..(MAX_LOG_SIZE + LineBytes(MaxMessage))

Directories ==
    {d \in UNION {[names -> SizesLeft] :
                     names \in SUBSET {g_logFilePath, backupPath}} :
        backupPath \in DOMAIN d => d[backupPath] > MAX_LOG_SIZE}

InitLog ==
    /\ sup = [s \in Sup |-> NoSup]
    /\ files = [f \in LockFiles |-> NoFile]
    /\ appExe = TRUE
    /\ app = [a \in App |-> NoApp]
    /\ installer = FALSE
    /\ probe = [phase |-> 0, file |-> "", before |-> NoFile, ret1 |-> FALSE,
                after1 |-> NoFile, ret2 |-> FALSE, after2 |-> NoFile]
    /\ injector = NoInjector
    /\ target = NoTargets
    /\ logs \in {[dir |-> d, last |-> NoCall] : d \in Directories}

NextLog == DoLog

SpecLog == InitLog /\ [][NextLog]_vars

-----------------------------------------------------------------------------
(* One supervisor process in its environment *)

NoProbe == [phase |-> 0, file |-> "", before |-> NoFile, ret1 |-> FALSE,
            after1 |-> NoFile, ret2 |-> FALSE, after2 |-> NoFile]

Init ==
    /\ sup = [s \in Sup |-> NoSup]
    /\ logs = NoLogs
    /\ files = [f \in LockFiles |-> NoFile]
    /\ appExe = TRUE
    /\ app = [a \in App |-> NoApp]
    /\ installer = FALSE
    /\ probe = NoProbe
    /\ injector = NoInjector
    /\ target = NoTargets

MainSup == 1

Next ==
    \/ Launch(MainSup)
    \/ SupCycleStep(MainSup)
    \/ \E a \in App : UserStartApp(a)
    \/ \E a \in App : AppStep(a)
    \/ EnvStep

Spec == Init /\ [][Next]_vars


-----------------------------------------------------------------------------
(* The active-checks called on their own: on any marker file, twice in a row *)

IsActive(f, fs) ==
    IF f = UPDATE_LOCK_FILE THEN IsUpdateInProgress(fs) ELSE IsRestartPending(fs)

\* The ages a probed marker starts with, in ticks: from a last write in the
\* clock's future to beyond the age read as stale.
ProbeAges(f) ==
    (0 - MaxFutureSeconds * TicksPerSecond) .. (AgeCap(f) + TicksPerSecond)

InitMarker ==
    /\ sup = [s \in Sup |-> NoSup]
    /\ logs = NoLogs
    /\ appExe = TRUE
    /\ app = [a \in App |-> NoApp]
    /\ installer = FALSE
    /\ injector = NoInjector
    /\ target = NoTargets
    /\ \E f \in LockFiles :
          /\ probe = [NoProbe EXCEPT !.file = f]
          /\ \/ files = [g \in LockFiles |-> NoFile]
             \/ \E a \in ProbeAges(f) :
                   files = [g \in LockFiles |->
                              IF g = f
                              THEN [exists |-> TRUE, age |-> a, pid |-> OtherPid]
                              ELSE NoFile]

ProbeFirst ==
    /\ probe.phase = 0
    /\ LET r == IsActive(probe.file, files) IN
          /\ files' = r.fs
          /\ probe' = [probe EXCEPT !.phase = 1, !.before = files[probe.file],
                                    !.ret1 = r.ret, !.after1 = r.fs[probe.file]]
    /\ UNCHANGED <<logs, sup, appExe, app, installer, injector, target>>

ProbeAgain ==
    /\ probe.phase = 1
    /\ LET r == IsActive(probe.file, files) IN
          /\ files' = r.fs
          /\ probe' = [probe EXCEPT !.phase = 2, !.ret2 = r.ret,
                                    !.after2 = r.fs[probe.file]]
    /\ UNCHANGED <<logs, sup, appExe, app, installer, injector, target>>

NextMarker == ProbeFirst \/ ProbeAgain

SpecMarker == InitMarker /\ [][NextMarker]_vars

\* the staleness threshold of a marker kind, and one whole unit of it, in ticks
ThresholdTicks(f) ==
    IF f = UPDATE_LOCK_FILE
    THEN UPDATE_LOCK_TIMEOUT_MINUTES * 60 * TicksPerSecond
    ELSE RESTART_LOCK_TIMEOUT_SECONDS * TicksPerSecond

UnitTicks(f) == IF f = UPDATE_LOCK_FILE THEN 60 * TicksPerSecond ELSE TicksPerSecond

\* What the claim says of a call on a stale file.
ReadAsStale ==
    /\ ~probe.ret1
    /\ ~probe.after1.exists
    /\ probe.phase = 2 => ~probe.ret2 /\ ~probe.after2.exists

C4_Claim ==
    probe.phase >= 1 =>
        /\ (probe.before.exists /\ probe.before.age <= ThresholdTicks(probe.file))
              => (probe.ret1 /\ probe.after1 = probe.before)
        /\ ~probe.before.exists => (~probe.ret1 /\ ~probe.after1.exists)


-----------------------------------------------------------------------------
(* Claims about one cycle, under Spec *)

Count(tr, e) == Cardinality({i \in DOMAIN tr : tr[i].ev = e})

Returned(tr, e, r) == \E i \in DOMAIN tr : tr[i].ev = e /\ tr[i].ret = r

RecoveryActions == {"CreateRestartLock", "CreateProcessW", "RemoveRestartLock"}

\* The four checks were made in PerformCheck's order and all came back false.
FoundNothing(tr) ==
    /\ Len(tr) >= 4
    /\ tr[1].ev = "IsUpdateInProgress" /\ ~tr[1].ret
    /\ tr[2].ev = "IsRestartPending" /\ ~tr[2].ret
    /\ tr[3].ev = "IsInstallerRunning" /\ ~tr[3].ret
    /\ tr[4].ev = "IsAppRunning" /\ ~tr[4].ret

\* C1 as stated: a finished cycle that found no update marker, no restart
\* marker, no installer and no app made exactly one restart-marker create,
\* one launch attempt and one restart-marker removal.
C1_Original ==
    \A s \in Sup :
        (sup[s].pc = "CycleDone" /\ FoundNothing(sup[s].trace)) =>
            /\ Count(sup[s].trace, "CreateRestartLock") = 1
            /\ Count(sup[s].trace, "CreateProcessW") = 1
            /\ Count(sup[s].trace, "RemoveRestartLock") = 1

\* C1 amended: such a cycle made exactly one restart-marker create and one
\* restart-marker removal, and exactly one launch attempt if it found the app
\* executable (whether or not the launch succeeded), none if the executable
\* was missing.
C1_Amended ==
    \A s \in Sup :
        (sup[s].pc = "CycleDone" /\ FoundNothing(sup[s].trace)) =>
            /\ Count(sup[s].trace, "CreateRestartLock") = 1
            /\ Count(sup[s].trace, "RemoveRestartLock") = 1
            /\ Count(sup[s].trace, "GetFileAttributesW") = 1
            /\ Returned(sup[s].trace, "GetFileAttributesW", TRUE)
                  => Count(sup[s].trace, "CreateProcessW") = 1
            /\ Returned(sup[s].trace, "GetFileAttributesW", FALSE)
                  => Count(sup[s].trace, "CreateProcessW") = 0

\* C1's case: a cycle that found nothing has ended after a failed launch.
C1_Witness ==
    \E s \in Sup :
        /\ sup[s].pc = "CycleDone"
        /\ FoundNothing(sup[s].trace)
        /\ Returned(sup[s].trace, "CreateProcessW", FALSE)

\* an update marker younger than 10 minutes
Young(f) ==
    /\ f.exists
    /\ 0 <= f.age
    /\ f.age < UPDATE_LOCK_TIMEOUT_MINUTES * 60 * TicksPerSecond

\* A recovery action is only ever made after the four checks, made in order,
\* all came back false.
RecoveryOnlyAfterChecks ==
    \A s \in Sup :
        (\E i \in DOMAIN sup[s].trace : sup[s].trace[i].ev \in RecoveryActions)
            => FoundNothing(sup[s].trace)

\* A cycle whose update check finds a young update marker ends there.
YoungMarkerEndsCycle ==
    \A s \in Sup :
        (/\ sup[s].pc = "IsUpdateInProgress"
         /\ sup'[s].pc # "IsUpdateInProgress"
         /\ Young(files[UPDATE_LOCK_FILE]))
            => /\ sup'[s].pc = "CycleDone"
               /\ \A i \in DOMAIN sup'[s].trace :
                     sup'[s].trace[i].ev \notin RecoveryActions

\* C2: a cycle makes recovery actions only after it found, in the order update
\* marker, restart marker, installer, app, nothing of the four; a cycle that
\* meets an update marker younger than 10 minutes makes none.
C2_RecoveryGuarded == []RecoveryOnlyAfterChecks /\ [][YoungMarkerEndsCycle]_vars

\* C2's case: a cycle has ended at a young update marker.
C2_Witness ==
    \E s \in Sup :
        /\ sup[s].pc = "CycleDone"
        /\ sup[s].trace = <<Ev("IsUpdateInProgress", TRUE, "")>>
        /\ Young(files[UPDATE_LOCK_FILE])

\* C8 as stated: the supervisor's removal at the end of a recovery never
\* deletes a restart marker somebody else wrote.
C8_Original ==
    \A s \in Sup :
        \A i \in DOMAIN sup[s].trace :
            sup[s].trace[i].ev = "RemoveRestartLock"
                => sup[s].trace[i].obs # "foreign"

RemoveStep(s) ==
    sup[s].pc = "RemoveRestartLock" /\ sup'[s].pc # "RemoveRestartLock"

StaleReadStep(s) ==
    /\ sup[s].pc = "IsRestartPending" /\ sup'[s].pc # "IsRestartPending"
    /\ files[RESTART_LOCK_FILE].age
          >= (RESTART_LOCK_TIMEOUT_SECONDS + 1) * TicksPerSecond

RestartMarkerDeleted ==
    files[RESTART_LOCK_FILE].exists /\ ~files'[RESTART_LOCK_FILE].exists

\* C8 amended: the supervisor's removal at the end of a recovery is
\* unconditional, it leaves no restart marker on disk whoever wrote it; and a
\* restart marker is only ever deleted by that removal, in a cycle that
\* created one, by a reader that finds it 31 seconds old or older, or by the
\* other mechanism deleting the marker it wrote.
C8_Amended ==
    [][ /\ \A s \in Sup : RemoveStep(s) => ~files'[RESTART_LOCK_FILE].exists
        /\ RestartMarkerDeleted =>
              \/ \E s \in Sup :
                    /\ RemoveStep(s)
                    /\ Count(sup[s].trace, "CreateRestartLock") = 1
              \/ \E s \in Sup : StaleReadStep(s)
              \/ sup' = sup /\ files[RESTART_LOCK_FILE].pid = OtherPid ]_vars

\* C8's case: a removal at the end of a recovery found, and deleted, a marker
\* the other mechanism wrote.
C8_Witness ==
    \E s \in Sup :
        /\ sup[s].pc = "CycleDone"
        /\ \E i \in DOMAIN sup[s].trace :
              /\ sup[s].trace[i].ev = "RemoveRestartLock"
              /\ sup[s].trace[i].obs = "foreign"
        /\ ~files[RESTART_LOCK_FILE].exists


-----------------------------------------------------------------------------
(* SpecGuard: every supervisor process may be started at any time. *)

NextGuard ==
    \/ \E s \in Sup : Launch(s)
    \/ \E s \in Sup : SupStep(s)
    \/ \E a \in App : AppStep(a)

SpecGuard == Init /\ [][NextGuard]_vars

GuardPcs == {"off", "CreateMutexW", "CloseDuplicate", "exited"}

PastGuard(s) == sup[s].pc \notin GuardPcs

AtMostOnePastGuard ==
    \A s \in Sup : \A u \in Sup : (PastGuard(s) /\ PastGuard(u)) => s = u

DuplicateExits ==
    \A s \in Sup :
        /\ (/\ sup[s].pc = "CreateMutexW"
            /\ sup'[s] # sup[s]
            /\ \E u \in Sup \ {s} : sup[u].hMutex)
              => /\ sup'[s].pc = "CloseDuplicate"
                 /\ sup'[s].trace = <<>> /\ sup'[s].cycles = 0
                 /\ files' = files /\ app' = app
        /\ (sup[s].pc = "CloseDuplicate" /\ sup'[s] # sup[s])
              => /\ sup'[s].pc = "exited"
                 /\ sup'[s].exitCode = 0
                 /\ ~sup'[s].hMutex
                 /\ sup'[s].trace = <<>> /\ sup'[s].cycles = 0
                 /\ files' = files /\ app' = app

\* C5: no two supervisor processes are past the single-instance guard at the
\* same time; a supervisor started, in either mode, while another one holds
\* the supervisor mutex exits with code 0 and makes no check and no recovery
\* action.
C5_SingleSupervisor == []AtMostOnePastGuard /\ [][DuplicateExits]_vars

\* C5's case: one supervisor is in a cycle and a second one, started
\* meanwhile, has exited without a cycle.
C5_Witness ==
    \E s \in Sup : \E u \in Sup \ {s} :
        /\ PastGuard(u)
        /\ sup[s].pc = "exited" /\ sup[s].cycles = 0 /\ sup[s].exitCode = 0
        /\ ~sup[s].hMutex

-----------------------------------------------------------------------------
(* SpecApp: the supervisor next to instances of the app that users start,
   from a1_tools.exe under any spelling or from a copy named otherwise. *)

NextApp ==
    \/ Launch(MainSup)
    \/ SupCycleStep(MainSup)
    \/ \E a \in App : UserStartAnyApp(a)
    \/ \E a \in App : AppStep(a)

SpecApp == Init /\ [][NextApp]_vars

\* the two signals, read off the state
MutexSignal == \E a \in App : app[a].pc = "run" /\ app[a].hMutex

NameSignal ==
    \E a \in App : app[a].pc # "none" /\ app[a].image \in {APP_EXE_NAME, UserImage}

IsAppRunningStep(s) ==
    /\ sup[s].pc \in {"IsAppRunning", "VerifyAppRunning"}
    /\ sup'[s].pc # sup[s].pc

LaunchStep(s) ==
    /\ sup[s].pc = "CreateProcessW"
    /\ sup'[s].pc # "CreateProcessW"
    /\ app' # app

ReturnsSignals ==
    \A s \in Sup :
        IsAppRunningStep(s) =>
            sup'[s].trace[Len(sup'[s].trace)].ret = (MutexSignal \/ NameSignal)

\* C9 as stated: IsAppRunning returns true exactly when the app's mutex
\* exists or a process is named like the app's executable, compared without
\* case, and the supervisor never starts the app while one of the two holds.
C9_Original ==
    [][ /\ ReturnsSignals
        /\ \A s \in Sup : LaunchStep(s) => ~(MutexSignal \/ NameSignal) ]_vars

\* C9 amended: IsAppRunning returns true exactly when one of the two signals
\* holds at the time of the call, and the supervisor starts the app only in a
\* cycle whose IsAppRunning call returned false; an instance that appears
\* after that call does not stop the launch.
C9_Amended ==
    [][ /\ ReturnsSignals
        /\ \A s \in Sup : LaunchStep(s) => FoundNothing(sup[s].trace) ]_vars

\* C9's case: the call returned true for a process named A1_Tools.EXE that
\* does not hold the mutex yet.
C9_Witness ==
    \E s \in Sup :
        /\ sup[s].pc = "CycleDone"
        /\ Len(sup[s].trace) = 4
        /\ sup[s].trace[4] = Ev("IsAppRunning", TRUE, "")
        /\ ~MutexSignal
        /\ \E a \in App : app[a].pc = "CreateMutexW" /\ app[a].image = UserImage

-----------------------------------------------------------------------------
(* SpecLive: the supervisor in surroundings that do not change by themselves:
   at least one marker left behind by a writer that is gone, an installer
   that stays or none, an instance of the app or none.  Time passes in the supervisor's
   Sleep calls.  The supervisor process is scheduled: a step it can take, it
   takes. *)

Writer(f) == IF f = UPDATE_LOCK_FILE THEN InstallerPid ELSE OtherPid

\* no marker, one just written, or one already stale
LeftBehind(f) ==
    {NoFile} \cup {[exists |-> TRUE, age |-> a, pid |-> Writer(f)] :
                      a \in {0, AgeCap(f)}}

InitLive ==
    /\ sup = [s \in Sup |-> NoSup]
    /\ logs = NoLogs
    /\ files \in [LockFiles -> LeftBehind(UPDATE_LOCK_FILE) \cup LeftBehind(RESTART_LOCK_FILE)]
    /\ \A f \in LockFiles : files[f] \in LeftBehind(f)
    /\ \E f \in LockFiles : files[f].exists
    /\ appExe \in BOOLEAN
    /\ installer \in BOOLEAN
    /\ \E running \in BOOLEAN :
          app = [a \in App |->
                   IF running /\ a # SupApp
                   THEN [NoApp EXCEPT !.pc = "run", !.image = UserImage,
                                      !.hMutex = TRUE, !.window = "created"]
                   ELSE NoApp]
    /\ probe = NoProbe
    /\ injector = NoInjector
    /\ target = NoTargets

NextLive ==
    \/ Launch(MainSup)
    \/ SupCycleStep(MainSup)
    \/ \E a \in App : AppStep(a)

SpecLive == InitLive /\ [][NextLive]_vars /\ WF_vars(SupCycleStep(MainSup))

Continuous(s) == PastGuard(s) /\ ~checkOnce(sup[s].cmdLine)

\* C6: in continuous mode every cycle ends, whatever branch it takes, and
\* after every cycle that ended a further cycle starts.
C6_NextCycleStarts ==
    \A s \in Sup :
        /\ Continuous(s) ~> (sup[s].pc = "CycleDone")
        /\ (Continuous(s) /\ sup[s].pc = "CycleDone")
              ~> (sup[s].pc = "IsUpdateInProgress")

\* C6's case: a cycle after the first one has ended in a failed launch.
C6_Witness ==
    \E s \in Sup :
        /\ Continuous(s)
        /\ sup[s].pc = "CycleDone"
        /\ sup[s].cycles = 2
        /\ Returned(sup[s].trace, "CreateProcessW", FALSE)

AppAbsent == \A a \in App : app[a].pc = "none"

\* a marker on disk that somebody else than supervisor s wrote
LeftBehindOnDisk(f, s) == files[f].exists /\ files[f].pid # Pid(s)

\* C7: a marker left behind, with the app absent and no installer running,
\* does not stop a continuously running supervisor for ever: the supervisor
\* comes to enter RecoverApp with no marker left on disk.
C7_StaleMarkerHeals ==
    \A s \in Sup :
        (/\ Continuous(s)
         /\ \E f \in LockFiles : LeftBehindOnDisk(f, s)
         /\ AppAbsent /\ ~installer)
            ~> (/\ sup[s].pc = "CreateRestartLock"
                /\ \A f \in LockFiles : ~files[f].exists)

\* C7's case: the supervisor enters RecoverApp with no marker on disk.  Under
\* SpecLive a marker was there at the start, and only a stale read deletes a
\* marker before the first RecoverApp.
C7_Witness ==
    \E s \in Sup :
        /\ sup[s].pc = "CreateRestartLock"
        /\ Continuous(s)
        /\ FoundNothing(sup[s].trace)
        /\ AppAbsent /\ ~installer
        /\ \A f \in LockFiles : ~files[f].exists

RunOnce(s) == sup[s].cmdLine \in {FLAG_CHECK_ONCE, FLAG_VERIFY}

RunOnceSafe ==
    \A s \in Sup :
        /\ RunOnce(s) => sup[s].cycles <= 1
        /\ sup[s].pc = "exited" =>
              /\ RunOnce(s)
              /\ sup[s].cycles = 1
              /\ ~sup[s].hMutex
              /\ sup[s].exitCode = 0

-----------------------------------------------------------------------------
(* SpecInjector: the GUI's calls into PrivacyInjector next to targets that
   show and hide their windows. *)

InitInjector ==
    /\ sup = [s \in Sup |-> NoSup]
    /\ logs = NoLogs
    /\ files = [f \in LockFiles |-> NoFile]
    /\ appExe = TRUE
    /\ app = [a \in App |-> NoApp]
    /\ installer = FALSE
    /\ probe = NoProbe
    /\ injector = NoInjector
    /\ target = [p \in TPid |->
                   IF p <= NLive
                   THEN [NoTarget EXCEPT !.image = TargetImage(p)]
                   ELSE NoTarget]

NextInjector ==
    \/ DoInitialize
    \/ DoHideProcessWindows
    \/ DoRestoreAll
    \/ \E p \in TPid, w \in Win : ShowWindow(p, w)
    \/ \E p \in TPid : ProcessReplaced(p)

SpecInjector == InitInjector /\ [][NextInjector]_vars

HiddenMap == injector.hidden_process_names_

Records == injector.injected_processes_

Log == injector.log

\* a step that is a call of the controller
Called_(op) == injector' # injector /\ injector'.log.op = op

PreviouslyHidden ==
    UNION {GetProcessIdsByName(k, target) : k \in Log.hidden}

\* C12 as stated: after RestoreAll no name is listed as hidden and no window
\* of a process whose name was marked hidden is excluded from capture.
C12_Claim ==
    (Log.op = "RestoreAll" /\ Log.hidden # {}) =>
        /\ GetHiddenProcesses(injector) = {}
        /\ \A p \in PreviouslyHidden : target[p].excluded = {}

\* C13 as stated: the module is loaded into a process at most once, so no
\* load-library thread is started in a process the module is loaded in.
C13_Original ==
    [][ \A p \in TPid :
           target'[p].loads > target[p].loads => ~target[p].loaded ]_vars

\* C13 amended: a remote load-library thread is started in a process only by
\* a call that finds no injection record for it; a record is missing after a
\* failed injection and after RestoreAll, and then the thread is started in
\* the same process again.
C13_Amended ==
    [][ \A p \in TPid :
           target'[p].loads > target[p].loads => ~MapHas(Records, p) ]_vars

\* C13's case: a second load-library thread was started in a process the
\* payload is loaded in.
C13_Witness ==
    \E p \in TPid :
        /\ target[p].loads = 2
        /\ target[p].loaded
        /\ MapHas(Records, p)
        /\ Log.by[p].inj = "loaded"

\* C14: there is at most one injection record for a pid, and InjectDll for a
\* pid that has a record returns true without an API call: no OpenProcess,
\* no VirtualAllocEx, no CreateRemoteThread.
C14_RecordReused ==
    /\ \A e \in Records : \A f \in Records : e[1] = f[1] => e = f
    /\ \A p \in TPid :
          (Log.by[p].windows /\ Log.by[p].hadRecord)
             => (Log.by[p].injRet /\ Log.by[p].inj = "")

\* C14's case: a call found the record of an earlier one and went on to the
\* remote call.
C14_Witness ==
    \E p \in TPid :
        /\ Log.by[p].windows /\ Log.by[p].hadRecord
        /\ Log.by[p].injRet /\ Log.by[p].inj = ""
        /\ Log.by[p].call = "done"
        /\ target[p].loads = 1

\* C15 as stated: a load-library thread that did not end within the wait, or
\* ended with exit code 0, makes InjectDll return false and leaves no record.
C15_Claim ==
    \A p \in TPid :
        Log.by[p].inj \in {"zero", "timeout", "late"}
           => (~Log.by[p].injRet /\ (Log.op # "RestoreAll" => ~MapHas(Records, p)))

\* C16 as stated: a HideAllProcessWindows thread that did not end within the
\* wait makes CallSetWindowVisibility return false, and the process is not
\* counted.
C16_Claim ==
    /\ \A p \in TPid : Log.by[p].call = "timeout" => ~Log.by[p].ret
    /\ Log.op = "HideProcessWindows" =>
          Log.ret <= Cardinality({p \in TPid : Log.by[p].call = "done"})

\* C17: when a call has returned, nothing it acquired is still held: no
\* process handle, no remote buffer, no thread handle, no local module.
C17_NothingHeld == injector.held = {}

\* C17's case: InjectDll failed at CreateRemoteThread, after the buffer was
\* allocated, and another call timed out in the remote call.
C17_Witness ==
    /\ injector.held = {}
    /\ \E p \in TPid : Log.by[p].inj = "CreateRemoteThread"
    /\ \E p \in TPid : target[p].loads >= 1

NoWindowsFound(p) == Log.by[p].ran /\ ~Log.by[p].windows

\* C18: HideProcessWindowsByPid for a process without a visible window
\* returns false at once: InjectDll is not called, no API call is made, no
\* record appears and nothing changes in the target.
C18_NoWindowsNoInjection ==
    /\ [](\A p \in TPid :
             NoWindowsFound(p) =>
                /\ ~Log.by[p].ret /\ ~Log.by[p].injRet
                /\ Log.by[p].inj = "" /\ Log.by[p].call = "")
    /\ [][ \A p \in TPid :
              (Called_("HideProcessWindows")
               /\ injector'.log.by[p].ran /\ ~injector'.log.by[p].windows)
                 => /\ target'[p] = target[p]
                    /\ MapHas(injector'.injected_processes_, p) = MapHas(Records, p)
         ]_vars

\* C18's case: a show was asked of an initialized controller for a process
\* that has no visible window and no record.
C18_Witness ==
    \E p \in TPid :
        /\ injector.initialized_
        /\ Log.op = "HideProcessWindows" /\ ~Log.hide
        /\ NoWindowsFound(p)
        /\ ~MapHas(Records, p) /\ target[p].loads = 0

\* C20: Initialize returns false for a file that does not exist and loads
\* nothing whether it exists or not; while no Initialize has succeeded every
\* HideProcessWindows returns 0 without coming to a process, no load-library
\* thread was started and both maps are empty.
C20_Uninitialized ==
    /\ [](/\ (Log.op = "Initialize" /\ ~Log.hide) => Log.ret = 0
          /\ ~injector.initialized_ =>
                /\ Records = {} /\ HiddenMap = {}
                /\ \A p \in TPid : target[p].loads = 0 /\ target[p].excluded = {}
                /\ Log.op = "HideProcessWindows" =>
                      (Log.ret = 0 /\ \A p \in TPid : ~Log.by[p].ran))
    /\ [][ Called_("Initialize") =>
              /\ target' = target
              /\ injector'.injected_processes_ = Records
              /\ (~injector'.log.hide => injector'.initialized_ = injector.initialized_)
         ]_vars

\* C20's case: HideProcessWindows was called before any Initialize succeeded,
\* for a process that shows a window.
C20_Witness ==
    /\ ~injector.initialized_
    /\ Log.op = "HideProcessWindows" /\ Log.hide /\ Log.ret = 0
    /\ \E p \in GetProcessIdsByName(Log.name, target) : target[p].visible # {}

(***************************************************************************)
(* SpecNames: GetProcessIdsByName over names and process snapshots          *)
(***************************************************************************)

\* the names asked for: e, e.exec, calc and x in several spellings
NameInputs ==
    {<<"e">>,
     <<"E">>,
     <<"e",".","e","x","e">>,
     <<"E",".","E","X","E">>,
     <<"E",".","e","x","e">>,
     <<"e",".","e","x","e","c">>,
     <<"E",".","E","X","E","C">>,
     <<"e",".","e","x","e","c",".","e","x","e">>,
     <<"E",".","E","x","e","c",".","E","x","e">>,
     <<"c","a","l","c">>,
     <<"C","a","l","c",".","e","x","e">>,
     <<"C","A","L","C",".","E","X","E">>,
     <<"x">>}

\* the images a snapshot entry can have
SnapshotImages ==
    {<<"e",".","e","x","e">>,
     <<"E",".","E","X","E">>,
     <<"s","e",".","e","x","e">>,
     <<"e",".","e","x","e","c",".","e","x","e">>,
     <<"e",".","e","x","e","c","u","t","e",".","e","x","e">>,
     <<"c","a","l","c",".","e","x","e">>,
     <<"C","a","l","c",".","e","x","e">>,
     <<"x",".","e","x","e">>}

InitNames ==
    /\ sup = [s \in Sup |-> NoSup]
    /\ logs = NoLogs
    /\ files = [f \in LockFiles |-> NoFile]
    /\ appExe = TRUE
    /\ app = [a \in App |-> NoApp]
    /\ installer = FALSE
    /\ probe = NoProbe
    /\ injector = NoInjector
    /\ \E img \in [TPid -> SnapshotImages] :
          target = [p \in TPid |-> [NoTarget EXCEPT !.image = img[p]]]

\* one call of GetProcessIdsByName on the snapshot
DoGetProcessIdsByName ==
    /\ \E processName \in NameInputs :
          injector' = [injector EXCEPT !.log =
              [NoLog EXCEPT !.op = "GetProcessIdsByName",
                            !.name = processName,
                            !.pids = GetProcessIdsByName(processName, target)]]
    /\ UNCHANGED <<logs, sup, files, appExe, app, installer, probe, target>>

NextNames == DoGetProcessIdsByName

SpecNames == InitNames /\ [][NextNames]_vars

\* a name without the ".exe" it ends in, if it ends in one
WithoutExe(s) ==
    IF Len(s) >= Len(DOT_EXE) /\ SubSeq(s, Len(s) - Len(DOT_EXE) + 1, Len(s)) = DOT_EXE
    THEN SubSeq(s, 1, Len(s) - Len(DOT_EXE))
    ELSE s

\* two spellings of one name: equal up to case and a final ".exe"
SameProcessName(a, b) ==
    WithoutExe(ToLowerCase(a)) = WithoutExe(ToLowerCase(b))

\* C19 as stated: GetProcessIdsByName returns the same set of pids for every
\* spelling of a name, whatever the case and with or without ".exe".
C19_Claim ==
    Log.op = "GetProcessIdsByName" =>
        \A v \in NameInputs :
            SameProcessName(v, Log.name) =>
                GetProcessIdsByName(v, target) = Log.pids

-----------------------------------------------------------------------------
(* Further claims about the active-checks, under SpecMarker *)

\* the age IsUpdateInProgress and IsRestartPending compute for marker f: the
\* ULONGLONG difference of lines 201 and 233
QuadDifference(fs, f) ==
    (GetSystemTimeAsFileTime - ftLastWriteTime(fs, f)) % QuadModulus

\* C27: the age of a marker is the unsigned difference of the clock and the
\* last-write time, so a marker last written in the clock's future has the
\* age 2^QuadBits less the distance; the active-check reads it as stale,
\* deletes the file and returns false.
C27_FutureMarkerWraps ==
    /\ \A f \in LockFiles :
          (files[f].exists /\ files[f].age < 0)
             => QuadDifference(files, f) = QuadModulus + files[f].age
    /\ (probe.phase >= 1 /\ probe.before.exists /\ probe.before.age < 0)
          => (~probe.ret1 /\ ~probe.after1.exists)

\* C27's case: an update marker written one tick in the clock's future was
\* probed and is gone.
C27_Witness ==
    /\ probe.phase >= 1
    /\ probe.file = UPDATE_LOCK_FILE
    /\ probe.before.exists /\ probe.before.age = 0 - 1
    /\ ~probe.ret1 /\ ~files[UPDATE_LOCK_FILE].exists

-----------------------------------------------------------------------------
(* Further claims about one cycle, under Spec *)

\* a restart marker this supervisor wrote is on disk
OwnMarkerOnDisk(s) ==
    files[RESTART_LOCK_FILE].exists /\ files[RESTART_LOCK_FILE].pid = Pid(s)

\* the cycle's record ends with the executable not found and the removal
AbortedAtExe(tr) ==
    /\ Len(tr) >= 2
    /\ tr[Len(tr) - 1].ev = "GetFileAttributesW" /\ ~tr[Len(tr) - 1].ret
    /\ tr[Len(tr)].ev = "RemoveRestartLock"

\* C24: a recovery that does not find the app executable makes no launch
\* attempt and no wait or verification, its next call is RemoveRestartLock;
\* and whenever a cycle that entered RecoverApp has ended, no restart marker
\* written by this supervisor is on disk.
C24_RecoveryLeavesNoMarker ==
    \A s \in Sup :
        /\ (sup[s].pc \notin {"off", "exited", "GetFileAttributesW"}
            /\ Returned(sup[s].trace, "GetFileAttributesW", FALSE))
              => /\ Count(sup[s].trace, "CreateProcessW") = 0
                 /\ Count(sup[s].trace, "VerifyAppRunning") = 0
                 /\ sup[s].pc \in {"RemoveRestartLock", "CycleDone"}
                 /\ sup[s].pc = "CycleDone" => AbortedAtExe(sup[s].trace)
        /\ (sup[s].pc = "CycleDone"
            /\ Count(sup[s].trace, "CreateRestartLock") > 0)
              => /\ ~OwnMarkerOnDisk(s)
                 /\ Count(sup[s].trace, "RemoveRestartLock") = 1

\* C24's case: a cycle has ended whose recovery did not find the executable.
C24_Witness ==
    \E s \in Sup :
        /\ sup[s].pc = "CycleDone"
        /\ AbortedAtExe(sup[s].trace)
        /\ Count(sup[s].trace, "CreateRestartLock") = 1
        /\ ~files[RESTART_LOCK_FILE].exists

-----------------------------------------------------------------------------
(* Further claims about the controller, under SpecInjector *)

\* the names a caller may ask about, as passed and lower-cased
AskedNames ==
    ProcessNames \cup {NAME_P_EXE}
       \cup {ToLowerCase(n) : n \in ProcessNames \cup {NAME_P_EXE}}
       \cup {e[1] : e \in HiddenMap}

\* C29: GetHiddenProcesses returns exactly the lower-cased names for which
\* IsProcessHidden is true, the entries of the map with flag true; a name
\* whose entry has flag false is not in the list and is not reported hidden.
C29_ListMatchesQuery ==
    /\ \A n \in AskedNames :
          IsProcessHidden(injector, n)
             <=> ToLowerCase(n) \in GetHiddenProcesses(injector)
    /\ \A n \in GetHiddenProcesses(injector) :
          n = ToLowerCase(n) /\ <<n, TRUE>> \in HiddenMap
    /\ \A e \in HiddenMap :
          ~e[2] => /\ e[1] \notin GetHiddenProcesses(injector)
                   /\ ~IsProcessHidden(injector, e[1])

\* C29's case: one name has an entry with flag true and another an entry
\* with flag false.
C29_Witness ==
    /\ GetHiddenProcesses(injector) = {ToLowerCase(NAME_NP_EXE)}
    /\ <<NAME_NP, FALSE>> \in HiddenMap
    /\ IsProcessHidden(injector, NAME_NP_EXE)
    /\ ~IsProcessHidden(injector, NAME_NP)

\* C28: a call that counted a process sets the entry of the lower-cased
\* name as passed and of no other name: the answer of IsProcessHidden for the
\* name with or without ".exe" stays what it was.  Every key of the map is a
\* lower-cased name as passed.
C28_KeyedByNameAsPassed ==
    /\ [](\A e \in HiddenMap : \E n \in ProcessNames : e[1] = ToLowerCase(n))
    /\ [][ (Called_("HideProcessWindows") /\ injector'.log.ret > 0) =>
              /\ IsProcessHidden(injector', injector'.log.name)
                    = injector'.log.hide
              /\ \A n \in AskedNames :
                    ToLowerCase(n) # ToLowerCase(injector'.log.name)
                       => IsProcessHidden(injector', n)
                             = IsProcessHidden(injector, n)
         ]_vars

\* C28's case: "np" was hidden, then "Np.EXE" was shown with success, and
\* "np" is still reported hidden while "Np.EXE" is not.
C28_Witness ==
    /\ Log.op = "HideProcessWindows" /\ Log.name = NAME_NP_EXE
    /\ ~Log.hide /\ Log.ret > 0
    /\ Log.hidden = {NAME_NP}
    /\ IsProcessHidden(injector, NAME_NP)
    /\ ~IsProcessHidden(injector, NAME_NP_EXE)
    /\ GetProcessIdsByName(NAME_NP, target)
          = GetProcessIdsByName(NAME_NP_EXE, target)

\* a call came to process p, which showed windows and had a record, while
\* the payload was not among the modules of the process holding the pid
StaleRecordCall(p) ==
    /\ injector' # injector
    /\ injector'.log.op = "HideProcessWindows"
    /\ injector'.log.by[p].windows
    /\ MapHas(Records, p)
    /\ ~target[p].loaded

\* C26: a call for a pid that has a record, the module not being loaded in
\* the process now holding the pid, returns false, starts no remote thread
\* and does not inject again, and the record stays; a toggle thread is
\* started only in a process the module is loaded in; a record goes away
\* only in RestoreAll.
C26_StaleRecordFails ==
    [][ \A p \in TPid :
          /\ StaleRecordCall(p) =>
                /\ ~injector'.log.by[p].ret
                /\ injector'.log.by[p].inj = ""
                /\ injector'.log.by[p].call = "nomodule"
                      \/ injector'.log.by[p].call \in
                            {"OpenProcess", "EnumProcessModules"}
                /\ target'[p] = target[p]
                /\ MapHas(injector'.injected_processes_, p)
          /\ (injector' # injector
               /\ injector'.log.by[p].call \in {"done", "none", "timeout"})
                 => target'[p].loaded
          /\ (MapHas(Records, p) /\ ~MapHas(injector'.injected_processes_, p))
                 => Called_("RestoreAll")
      ]_vars

\* C26's case: the process that had the payload is gone, a new process holds
\* its pid and shows a window, and a call for it found the record and no
\* module.
C26_Witness ==
    \E p \in TPid :
        /\ MapHas(Records, p)
        /\ ~target[p].loaded /\ target[p].loads = 0
        /\ target[p].visible # {}
        /\ Log.op = "HideProcessWindows"
        /\ Log.by[p].windows /\ Log.by[p].hadRecord
        /\ Log.by[p].call = "nomodule" /\ ~Log.by[p].ret

-----------------------------------------------------------------------------
(* SpecPair: the GUI's calls for one name next to several processes that
   match it.  SpecList: the GUI's calls for a list of names. *)

MaxList == 2

PairNames == {NAME_NP, NAME_P_EXE}

PairOutcomes ==
    {[inj |-> "loaded", call |-> "done"],
     [inj |-> "OpenProcess", call |-> "done"],
     [inj |-> "loaded", call |-> "none"]}

ListOutcomes ==
    {[inj |-> "loaded", call |-> "done"],
     [inj |-> "OpenProcess", call |-> "done"]}

\* the lists passed: up to MaxList entries, names and a value of another type
ListEntries == {StringValue(n) : n \in PairNames} \cup {OtherValue}

Lists == UNION {[1..n -> ListEntries] : n \in 0..MaxList}

InitPair ==
    /\ sup = [s \in Sup |-> NoSup]
    /\ logs = NoLogs
    /\ files = [f \in LockFiles |-> NoFile]
    /\ appExe = TRUE
    /\ app = [a \in App |-> NoApp]
    /\ installer = FALSE
    /\ probe = NoProbe
    /\ injector = NoInjector
    /\ target = [p \in TPid |-> [NoTarget EXCEPT !.image = TargetImage(p)]]

NextPair ==
    \/ DoInitialize
    \/ HideProcessWindowsCall(PairNames, PairOutcomes)
    \/ \E p \in TPid, w \in Win : ShowWindow(p, w)

SpecPair == InitPair /\ [][NextPair]_vars

NextList ==
    \/ DoInitialize
    \/ hideMultipleProcessesCall(Lists, ListOutcomes)
    \/ \E p \in TPid, w \in Win : ShowWindow(p, w)

SpecList == InitInjector /\ [][NextList]_vars

\* the processes the last call came to and those it succeeded for
CameTo == {p \in TPid : Log.by[p].ran}

Succeeded == {p \in TPid : Log.by[p].ret}

RECURSIVE OneAfterAnother(_, _, _, _, _, _)
ThenTheRest(r, processes, hide, outs, i) ==
    [OneAfterAnother(r.c, r.t, processes, hide, outs, i)
        EXCEPT !.sum = @ + r.ret]

OneAfterAnother(c, tg, processes, hide, outs, i) ==
    IF i > Len(processes)
    THEN [c |-> c, t |-> tg, sum |-> 0]
    ELSE IF processes[i].isString
    THEN ThenTheRest(HideProcessWindows(c, tg,
                                        Utf8ToWstring(processes[i].value),
                                        hide, outs[i]),
                     processes, hide, outs, i + 1)
    ELSE OneAfterAnother(c, tg, processes, hide, outs, i + 1)

\* the controller without the record of the last call
Controller(c) == [c EXCEPT !.log = NoLog]

\* the step left the controller and the targets as r has them and returned
\* r's sum
LeftAs(r) ==
    /\ Controller(injector') = Controller(r.c)
    /\ target' = r.t
    /\ injector'.log.ret = r.sum

\* C21: hideMultipleProcesses leaves the controller and the targets as the
\* single-name calls for the listed names, made one after another in the
\* order of the list with the same flag, leave them, and returns the sum of
\* the values those calls return.
C21_ListAsSingleCalls ==
    [][ Called_("hideMultipleProcesses") =>
          LeftAs(OneAfterAnother(injector, target, injector'.log.processes,
                                 injector'.log.hide, injector'.log.outs, 1))
      ]_vars

\* C21's case: a list of two names that match the same process was hidden;
\* the process is counted for each name and both names are recorded.
C21_Witness ==
    /\ Log.op = "hideMultipleProcesses" /\ Log.hide
    /\ Log.processes = <<StringValue(NAME_P_EXE), StringValue(NAME_NP)>>
    /\ Log.ret = 2
    /\ GetHiddenProcesses(injector)
          = {ToLowerCase(NAME_P_EXE), ToLowerCase(NAME_NP)}

-----------------------------------------------------------------------------
(* Claims about the log file, under SpecLog *)

\* a step that is a Log call finding a log file larger than the limit
LogFoundLarge ==
    /\ logs' # logs
    /\ FileExists(logs.dir, g_logFilePath)
    /\ logs.dir[g_logFilePath] > MAX_LOG_SIZE

\* C23: after any Log calls there is no file but the log and one backup, the
\* log's name followed by ".old".  A call that finds the log larger than
\* 1 MiB makes it the backup, in place of the backup there was, and appends
\* its line to a new log file; any other call leaves the backup as it was
\* and appends to the log there is.
C23_OneBackup ==
    /\ [](DOMAIN logs.dir \subseteq {g_logFilePath, g_logFilePath \o ".old"})
    /\ [][ /\ LogFoundLarge =>
                /\ FileExists(logs'.dir, backupPath)
                /\ logs'.dir[backupPath] = logs.dir[g_logFilePath]
                /\ IF logs'.last.opened
                   THEN /\ FileExists(logs'.dir, g_logFilePath)
                        /\ logs'.dir[g_logFilePath] = logs'.last.line
                   ELSE ~FileExists(logs'.dir, g_logFilePath)
           /\ (logs' # logs /\ ~LogFoundLarge) =>
                /\ FileExists(logs'.dir, backupPath)
                      = FileExists(logs.dir, backupPath)
                /\ FileExists(logs.dir, backupPath)
                      => logs'.dir[backupPath] = logs.dir[backupPath]
                /\ logs'.last.opened =>
                      logs'.dir[g_logFilePath]
                        = (IF FileExists(logs.dir, g_logFilePath)
                           THEN logs.dir[g_logFilePath] ELSE 0)
                          + logs'.last.line
         ]_vars

\* C23's case: a call found the log larger than the limit next to an older
\* backup; now the backup is the log it found and the log holds its line.
C23_Witness ==
    /\ logs.last.calls = 2
    /\ logs.last.found > MAX_LOG_SIZE
    /\ logs.last.opened
    /\ FileExists(logs.dir, backupPath)
    /\ logs.dir[backupPath] = logs.last.found
    /\ logs.dir[g_logFilePath] = logs.last.line

-----------------------------------------------------------------------------
(* Claims about the main app's start, under SpecApp *)

BothFlags(args) ==
    HasFlag(args, "--auto-start") /\ HasFlag(args, "--service-restart")

\* the instance in slot a passes the guard and creates its window
PassesGuard(a) == app[a].pc = "CreateMutexW" /\ app'[a].pc = "run"

PastAppGuard == {a \in App : app[a].pc = "run"}

\* C30 as stated: at most one instance is past the single-instance guard
\* with a window, and an instance that comes to the guard while another is
\* past it returns 0 without creating a window.
C30_Claim ==
    /\ [](Cardinality(PastAppGuard) <= 1)
    /\ [][ \A a \in App :
              (app[a].pc = "CreateMutexW" /\ app'[a] # app[a]
               /\ PastAppGuard # {})
                 => /\ app'[a].pc = "none"
                    /\ app'[a].exitCode = 0
                    /\ app'[a].window = "none"
         ]_vars

=============================================================================
